---- MODULE Spec2Model ----
(***************************************************************************)
(* trep: structural search over a Python syntax tree (src/src/main.rs).    *)
(*                                                                         *)
(* Text is modelled as a sequence of one-character strings.  A source      *)
(* buffer is a sequence of bytes; the only multi-byte character is a       *)
(* two-byte one, written as the lead byte "0xC3" followed by the           *)
(* continuation byte "0xA9".  A syntax tree is an arena of nodes 1..n      *)
(* (node 1 is the root) with parent links (0 = no parent), a kind, a flag  *)
(* telling whether the node is the "name" field of its parent, and a byte  *)
(* span [start, end).                                                      *)
(***************************************************************************)
EXTENDS Naturals, Sequences, FiniteSets

VARIABLES
    pattern,   \* the query given on the command line (main.rs:18)
    status,    \* where main is: "running", "done" (Ok), "err" (Err returned), "panic"
    output,    \* the lines printed to stdout so far
    nfiles,    \* walk entries consumed so far
    last,      \* the walk entry handled by the last loop iteration and its outcome
    input,     \* the argument of the function under study (pure-function specifications)
    call       \* the last application of a function to the input, with its result

vars == <<pattern, status, output, nfiles, last, input, call>>

-----------------------------------------------------------------------------
(* Characters *)

NL == "\n"
\* The replacement text of format_multiline (main.rs:149), kept as one unit of
\* the output: it holds no newline and no whitespace.
JoinMarker == "<-'"
\* The characters the regex class \s matches among the ones modelled.
Whitespace == {" ", NL}
\* The two bytes of the one multi-byte character modelled.
LeadByte == "0xC3"
ContByte == "0xA9"

-----------------------------------------------------------------------------
(* format_multiline: replace_all of the regex \n\s+ by the join marker *)

\* End of the greedy \s+ run that starts at index j: the first index at or
\* after j holding no whitespace, or Len(s) + 1.
RECURSIVE RunEnd(_, _)
RunEnd(s, j) ==
    IF j > Len(s) \/ s[j] \notin Whitespace THEN j ELSE RunEnd(s, j + 1)

\* Leftmost non-overlapping matches, scanning from index i.
RECURSIVE ReplaceFrom(_, _)
ReplaceFrom(s, i) ==
    IF i > Len(s) THEN <<>>
    ELSE IF s[i] = NL /\ i < Len(s) /\ s[i + 1] \in Whitespace
         THEN <<JoinMarker>> \o ReplaceFrom(s, RunEnd(s, i + 1))
         ELSE <<s[i]>> \o ReplaceFrom(s, i + 1)

format_multiline(s) == ReplaceFrom(s, 1)

-----------------------------------------------------------------------------
(* The tree accessor: tree_sitter::Node over a source buffer *)

Range(f) == {f[k] : k \in DOMAIN f}

RECURSIVE Reverse(_)
Reverse(s) == IF s = <<>> THEN <<>> ELSE Append(Reverse(Tail(s)), Head(s))

\* source[start..end) of a 0-based half-open byte span.
Slice(src, start, end) == SubSeq(src, start + 1, end)

\* std::str::from_utf8 on the modelled bytes: every lead byte is followed by
\* its continuation byte and every continuation byte follows a lead byte.
ValidUtf8(b) ==
    \A k \in 1..Len(b) :
        /\ b[k] = LeadByte => (k < Len(b) /\ b[k + 1] = ContByte)
        /\ b[k] = ContByte => (k > 1 /\ b[k - 1] = LeadByte)

\* str::is_char_boundary for a 0-based offset into a valid buffer.
IsCharBoundary(src, off) == off = Len(src) \/ (off < Len(src) /\ src[off + 1] # ContByte)

Nodes(T) == 1..T.n
Root == 1
\* Node::parent: 0 stands for None.
Parent(T, node) == T.parent[node]

\* The children of a node, in order (node indices grow left to right).
Children(T, node) ==
    SelectSeq([k \in 1..T.n |-> k], LAMBDA c : T.parent[c] = node)

child_count(T, node) == Len(Children(T, node))

\* Node::utf8_text: the span's bytes decoded, or a Utf8Error.
utf8_text(T, node) ==
    LET b == Slice(T.src, T.start[node], T.end[node])
    IN  IF ValidUtf8(b) THEN [ok |-> TRUE, text |-> b]
                        ELSE [ok |-> FALSE, text |-> <<>>]

\* Node::child_by_field_name("name"): the first child carrying that field.
child_by_field_name(T, node) ==
    LET named == SelectSeq(Children(T, node), LAMBDA c : T.field[c])
    IN  IF named = <<>> THEN 0 ELSE named[1]

\* str::contains: q occurs in text as a contiguous run (the empty q always does).
Contains(text, q) ==
    \E k \in 0..Len(text) :
        k + Len(q) <= Len(text) /\ SubSeq(text, k + 1, k + Len(q)) = q

-----------------------------------------------------------------------------
(* find_leaf_nodes_with_text: Ok(matches) or the first decode error *)

RECURSIVE find_leaf_nodes_with_text(_, _, _)
RECURSIVE FindInChildren(_, _, _, _, _)

\* A variant of the loop that puts each child's matches in front of the ones
\* collected so far.
RECURSIVE FindInChildrenPrepending(_, _, _, _, _)
FindInChildrenPrepending(T, ch, i, q, matches) ==
    IF i > Len(ch) THEN [ok |-> TRUE, matches |-> matches]
    ELSE LET r == find_leaf_nodes_with_text(T, ch[i], q)
         IN  IF ~r.ok THEN [ok |-> FALSE, matches |-> <<>>]
             ELSE FindInChildrenPrepending(T, ch, i + 1, q, r.matches \o matches)

\* A variant of the search that drops a leaf whose span does not decode
\* instead of failing.
RECURSIVE FindSkippingUndecodable(_, _, _)
FindSkippingUndecodable(T, node, q) ==
    IF child_count(T, node) = 0
    THEN LET t == utf8_text(T, node)
         IN  [ok |-> TRUE,
              matches |-> IF t.ok /\ Contains(t.text, q) THEN <<node>> ELSE <<>>]
    ELSE LET ch == Children(T, node)
             RECURSIVE Collect(_)
             Collect(i) == IF i > Len(ch) THEN <<>>
                           ELSE FindSkippingUndecodable(T, ch[i], q).matches \o Collect(i + 1)
         IN  [ok |-> TRUE, matches |-> Collect(1)]

\* The loop of lines 85-89 from child i on, matches holding what was collected.
FindInChildren(T, ch, i, q, matches) ==
    IF i > Len(ch) THEN [ok |-> TRUE, matches |-> matches]
    ELSE LET r == find_leaf_nodes_with_text(T, ch[i], q)
         IN  IF ~r.ok THEN [ok |-> FALSE, matches |-> <<>>]
             ELSE FindInChildren(T, ch, i + 1, q, matches \o r.matches)

find_leaf_nodes_with_text(T, node, q) ==
    IF child_count(T, node) = 0
    THEN LET t == utf8_text(T, node)
         IN  IF ~t.ok THEN [ok |-> FALSE, matches |-> <<>>]
             ELSE [ok |-> TRUE,
                   matches |-> IF Contains(t.text, q) THEN <<node>> ELSE <<>>]
    ELSE FindInChildren(T, Children(T, node), 1, q, <<>>)

-----------------------------------------------------------------------------
(* collect_parent_hierarchy and get_node_name *)

\* The while loop of lines 98-101: push the node, move to its parent.
RECURSIVE PushAncestors(_, _, _)
PushAncestors(T, current, hierarchy) ==
    IF current = 0 THEN hierarchy
    ELSE PushAncestors(T, Parent(T, current), Append(hierarchy, current))

\* A variant without the reverse of line 103: leaf first.
CollectLeafFirst(T, node) == PushAncestors(T, node, <<>>)

collect_parent_hierarchy(T, node) == Reverse(PushAncestors(T, node, <<>>))

ScopeKinds == {"class_definition", "function_definition"}

\* Some(name) or None.
get_node_name(T, node) ==
    IF T.kind[node] \in ScopeKinds
    THEN LET c == child_by_field_name(T, node)
         IN  IF c = 0 THEN [some |-> FALSE, name |-> <<>>]
             ELSE LET t == utf8_text(T, c)
                  IN  IF t.ok THEN [some |-> TRUE, name |-> t.text]
                               ELSE [some |-> FALSE, name |-> <<>>]
    ELSE [some |-> FALSE, name |-> <<>>]

\* hierarchy.iter().filter_map(get_node_name ...): the (node, name) pairs.
RECURSIVE nodes_with_names(_, _)
nodes_with_names(T, hierarchy) ==
    IF hierarchy = <<>> THEN <<>>
    ELSE LET nm == get_node_name(T, Head(hierarchy))
             rest == nodes_with_names(T, Tail(hierarchy))
         IN  IF nm.some THEN <<[node |-> Head(hierarchy), name |-> nm.name]>> \o rest
                        ELSE rest

\* [String].join("->")
RECURSIVE Join(_)
Join(names) ==
    IF names = <<>> THEN <<>>
    ELSE IF Len(names) = 1 THEN names[1]
    ELSE names[1] \o <<"-", ">">> \o Join(Tail(names))

hierarchy_str(T, hierarchy) ==
    LET nn == nodes_with_names(T, hierarchy)
    IN  Join([k \in 1..Len(nn) |-> nn[k].name])

-----------------------------------------------------------------------------
(* matched_block *)

\* A variant of the climb that stops below the anchor's child: it compares
\* the parent, not the grandparent, with last_node.
RECURSIVE ClimbToDirectChild(_, _, _)
ClimbToDirectChild(T, node, last_node) ==
    LET parent == Parent(T, node)
    IN  IF parent = 0 THEN node
        ELSE IF Parent(T, parent) = 0 THEN node
        ELSE IF parent = last_node THEN node
        ELSE ClimbToDirectChild(T, parent, last_node)

\* A variant of the climb that never looks at last_node.
RECURSIVE ClimbIgnoringAnchor(_, _, _)
ClimbIgnoringAnchor(T, node, last_node) ==
    LET parent == Parent(T, node)
    IN  IF parent = 0 THEN node
        ELSE IF Parent(T, parent) = 0 THEN node
        ELSE ClimbIgnoringAnchor(T, parent, last_node)

\* A variant of the climb that goes on to the root where there is no
\* grandparent.
RECURSIVE ClimbToRoot(_, _, _)
ClimbToRoot(T, node, last_node) ==
    LET parent == Parent(T, node)
    IN  IF parent = 0 THEN node
        ELSE IF Parent(T, parent) # 0 /\ Parent(T, parent) = last_node THEN node
        ELSE ClimbToRoot(T, parent, last_node)

\* The loop of lines 121-134: the node the climb stops at.
RECURSIVE relevant_node(_, _, _)
relevant_node(T, node, last_node) ==
    LET parent == Parent(T, node)
    IN  IF parent = 0 THEN node
        ELSE LET grandparent == Parent(T, parent)
             IN  IF grandparent = 0 THEN node
                 ELSE IF grandparent = last_node THEN node
                 ELSE relevant_node(T, parent, last_node)

\* Lines 137-142.  Slicing a str off a character boundary panics.
matched_block(T, node, last_node) ==
    LET r == relevant_node(T, node, last_node)
        start_byte == T.start[r]
        end_byte == T.end[r]
    IN  IF IsCharBoundary(T.src, start_byte) /\ IsCharBoundary(T.src, end_byte)
        THEN [panic |-> FALSE,
              text |-> format_multiline(Slice(T.src, start_byte, end_byte))]
        ELSE [panic |-> TRUE, text |-> <<>>]

-----------------------------------------------------------------------------
(* process_file *)

\* println!("{} {}: {}", fname, hierarchy_str, line)
ReportLine(fname, chain, block) == fname \o <<" ">> \o chain \o <<":", " ">> \o block

\* The for loop of lines 51-69 from the k-th match on: the lines it prints and
\* how it ends.  The unwrap of line 59 panics when no node has a name.
RECURSIVE ReportFrom(_, _, _, _)
ReportFrom(T, fname, matched_nodes, k) ==
    IF k > Len(matched_nodes) THEN [status |-> "ok", lines |-> <<>>]
    ELSE LET matched_node == matched_nodes[k]
             hierarchy == collect_parent_hierarchy(T, matched_node)
             nn == nodes_with_names(T, hierarchy)
         IN  IF nn = <<>> THEN [status |-> "panic", lines |-> <<>>]
             ELSE LET last_node == nn[Len(nn)].node
                      line == matched_block(T, matched_node, last_node)
                  IN  IF line.panic THEN [status |-> "panic", lines |-> <<>>]
                      ELSE LET rest == ReportFrom(T, fname, matched_nodes, k + 1)
                           IN  [status |-> rest.status,
                                lines |-> <<ReportLine(fname, hierarchy_str(T, hierarchy),
                                                       line.text)>> \o rest.lines]

process_file(T, fname, q) ==
    LET found == find_leaf_nodes_with_text(T, Root, q)
    IN  IF ~found.ok THEN [status |-> "err", lines |-> <<>>]
        ELSE ReportFrom(T, fname, found.matches, 1)

-----------------------------------------------------------------------------
(* The files the walk can meet *)

\* A tree from its source and its node table: one row
\* <<parent, kind, is the name field, start_byte, end_byte>> per node.
MkTree(src, rows) ==
    [n      |-> Len(rows),
     parent |-> [k \in 1..Len(rows) |-> rows[k][1]],
     kind   |-> [k \in 1..Len(rows) |-> rows[k][2]],
     field  |-> [k \in 1..Len(rows) |-> rows[k][3]],
     start  |-> [k \in 1..Len(rows) |-> rows[k][4]],
     end    |-> [k \in 1..Len(rows) |-> rows[k][5]],
     src    |-> src]

\* The tree of an empty file: a module node and nothing else.
EmptyTree == MkTree(<<>>, << <<0, "module", FALSE, 0, 0>> >>)

\* Scenario 1: def f():\n    x = 1\n    return x
Scenario1Src ==
    <<"d", "e", "f", " ", "f", "(", ")", ":", NL, " ", " ", " ">> \o
    <<" ", "x", " ", "=", " ", "1", NL, " ", " ", " ", " ", "r">> \o
    <<"e", "t", "u", "r", "n", " ", "x">>
Scenario1Nodes == <<
    <<0, "module", FALSE, 0, 31>>,
    <<1, "function_definition", FALSE, 0, 31>>,
    <<2, "def", FALSE, 0, 3>>,
    <<2, "identifier", TRUE, 4, 5>>,
    <<2, "parameters", FALSE, 5, 7>>,
    <<5, "(", FALSE, 5, 6>>,
    <<5, ")", FALSE, 6, 7>>,
    <<2, ":", FALSE, 7, 8>>,
    <<2, "block", FALSE, 13, 31>>,
    <<9, "expression_statement", FALSE, 13, 18>>,
    <<10, "assignment", FALSE, 13, 18>>,
    <<11, "identifier", FALSE, 13, 14>>,
    <<11, "=", FALSE, 15, 16>>,
    <<11, "integer", FALSE, 17, 18>>,
    <<9, "return_statement", FALSE, 23, 31>>,
    <<15, "return", FALSE, 23, 29>>,
    <<15, "identifier", FALSE, 30, 31>>
    >>
Scenario1 == MkTree(Scenario1Src, Scenario1Nodes)

\* Scenario 2: class C:\n    def m(self):\n        call(target)
Scenario2Src ==
    <<"c", "l", "a", "s", "s", " ", "C", ":", NL, " ", " ", " ">> \o
    <<" ", "d", "e", "f", " ", "m", "(", "s", "e", "l", "f", ")">> \o
    <<":", NL, " ", " ", " ", " ", " ", " ", " ", " ", "c", "a">> \o
    <<"l", "l", "(", "t", "a", "r", "g", "e", "t", ")">>
Scenario2Nodes == <<
    <<0, "module", FALSE, 0, 46>>,
    <<1, "class_definition", FALSE, 0, 46>>,
    <<2, "class", FALSE, 0, 5>>,
    <<2, "identifier", TRUE, 6, 7>>,
    <<2, ":", FALSE, 7, 8>>,
    <<2, "block", FALSE, 13, 46>>,
    <<6, "function_definition", FALSE, 13, 46>>,
    <<7, "def", FALSE, 13, 16>>,
    <<7, "identifier", TRUE, 17, 18>>,
    <<7, "parameters", FALSE, 18, 24>>,
    <<10, "(", FALSE, 18, 19>>,
    <<10, "identifier", FALSE, 19, 23>>,
    <<10, ")", FALSE, 23, 24>>,
    <<7, ":", FALSE, 24, 25>>,
    <<7, "block", FALSE, 34, 46>>,
    <<15, "expression_statement", FALSE, 34, 46>>,
    <<16, "call", FALSE, 34, 46>>,
    <<17, "identifier", FALSE, 34, 38>>,
    <<17, "argument_list", FALSE, 38, 46>>,
    <<19, "(", FALSE, 38, 39>>,
    <<19, "identifier", FALSE, 39, 45>>,
    <<19, ")", FALSE, 45, 46>>
    >>
Scenario2 == MkTree(Scenario2Src, Scenario2Nodes)

\* Scenario 3: pass
Scenario3Src ==
    <<"p", "a", "s", "s">>
Scenario3Nodes == <<
    <<0, "module", FALSE, 0, 4>>,
    <<1, "pass_statement", FALSE, 0, 4>>,
    <<2, "pass", FALSE, 0, 4>>
    >>
Scenario3 == MkTree(Scenario3Src, Scenario3Nodes)

\* Scenario 4: x = 1 at the top level
Scenario4Src ==
    <<"x", " ", "=", " ", "1">>
Scenario4Nodes == <<
    <<0, "module", FALSE, 0, 5>>,
    <<1, "expression_statement", FALSE, 0, 5>>,
    <<2, "assignment", FALSE, 0, 5>>,
    <<3, "identifier", FALSE, 0, 1>>,
    <<3, "=", FALSE, 2, 3>>,
    <<3, "integer", FALSE, 4, 5>>
    >>
Scenario4 == MkTree(Scenario4Src, Scenario4Nodes)

\* Scenario 5: def x(): followed by a two-byte character whose bytes fall in
\* two leaves, so that neither leaf's span decodes
Scenario5Src ==
    <<"d", "e", "f", " ", "x", "(", ")", ":", " ", LeadByte, ContByte>>
Scenario5Nodes == <<
    <<0, "module", FALSE, 0, 11>>,
    <<1, "function_definition", FALSE, 0, 11>>,
    <<2, "def", FALSE, 0, 3>>,
    <<2, "identifier", TRUE, 4, 5>>,
    <<2, "parameters", FALSE, 5, 7>>,
    <<5, "(", FALSE, 5, 6>>,
    <<5, ")", FALSE, 6, 7>>,
    <<2, ":", FALSE, 7, 8>>,
    <<2, "block", FALSE, 9, 11>>,
    <<9, "expression_statement", FALSE, 9, 11>>,
    <<10, "identifier", FALSE, 9, 10>>,
    <<10, "ERROR", FALSE, 10, 11>>
    >>
Scenario5 == MkTree(Scenario5Src, Scenario5Nodes)

\* What one step of the directory walk yields: an error of the walk itself, an
\* entry that is no .py file, a .py file that cannot be read as UTF-8, a .py
\* file the parser returns no tree for, or a .py file with its tree.
Entry(what, path, tree) == [what |-> what, path |-> path, tree |-> tree]

PyFiles == {
    Entry("py", <<"./s1.py">>, Scenario1),
    Entry("py", <<"./s2.py">>, Scenario2),
    Entry("py", <<"./s3.py">>, Scenario3),
    Entry("py", <<"./s4.py">>, Scenario4),
    Entry("py", <<"./s5.py">>, Scenario5) }

Entries == PyFiles \cup {
    Entry("walk_error", <<>>, EmptyTree),
    Entry("other", <<"./README.md">>, EmptyTree),
    Entry("unreadable", <<"./latin1.py">>, EmptyTree),
    Entry("unparsed", <<"./s0.py">>, EmptyTree) }

Patterns == { <<"x">>, <<"t", "a", "r", "g", "e", "t">> }

-----------------------------------------------------------------------------
(* main: the walk over the current directory *)

\* Entries one run consumes at most.
MaxFiles == 3

NoEntry == Entry("none", <<>>, EmptyTree)
NoLast == [entry |-> NoEntry, outcome |-> "none", lines |-> <<>>]
NoCall == [fn |-> "none", node |-> 0, last_node |-> 0, ok |-> TRUE,
           nodes |-> <<>>, text |-> <<>>]

Init ==
    /\ pattern \in Patterns
    /\ status = "running"
    /\ output = <<>>
    /\ nfiles = 0
    /\ last = NoLast
    /\ input = EmptyTree
    /\ call = NoCall

\* One iteration of the loop of lines 27-41 on the entry e, ending in `outcome`
\* after printing `lines`.
Iterate(e, outcome, lines) ==
    /\ status = "running"
    /\ nfiles < MaxFiles
    /\ nfiles' = nfiles + 1
    /\ output' = output \o lines
    /\ last' = [entry |-> e, outcome |-> outcome, lines |-> lines]
    /\ status' = IF outcome \in {"ok", "skipped"} THEN "running" ELSE outcome
    /\ UNCHANGED <<pattern, input, call>>

\* Line 28: `result?` returns the walk's error from main.
WalkError ==
    \E e \in Entries : e.what = "walk_error" /\ Iterate(e, "err", <<>>)

\* Line 30: not a file, or no .py extension.
SkipEntry ==
    \E e \in Entries : e.what = "other" /\ Iterate(e, "skipped", <<>>)

\* Line 32: read_to_string(...).expect(...) panics.
ReadFailure ==
    \E e \in Entries : e.what = "unreadable" /\ Iterate(e, "panic", <<>>)

\* Lines 35-37: parse returned None; `?` returns the error from main.
ParseFailure ==
    \E e \in Entries : e.what = "unparsed" /\ Iterate(e, "err", <<>>)

\* Lines 32-39: the file is read and parsed, and process_file runs on its tree;
\* `?` returns its error from main, a panic ends the process.
ProcessPy ==
    \E e \in Entries :
        /\ e.what = "py"
        /\ LET r == process_file(e.tree, e.path, pattern)
           IN  Iterate(e, r.status, r.lines)

\* Line 43: the walk is exhausted.
WalkEnd ==
    /\ status = "running"
    /\ status' = "done"
    /\ UNCHANGED <<pattern, output, nfiles, last, input, call>>

Next == WalkError \/ SkipEntry \/ ReadFailure \/ ParseFailure \/ ProcessPy \/ WalkEnd

Spec == Init /\ [][Next]_vars

-----------------------------------------------------------------------------
(* format_multiline on its own *)

\* Longest block text tried.
MaxLen == 3

FmtAlphabet == {"a", " ", NL, JoinMarker}
FmtInputs(max) == UNION {[1..k -> FmtAlphabet] : k \in 0..max}

InitFmt ==
    /\ input \in FmtInputs(MaxLen)
    /\ call = NoCall
    /\ pattern = <<>>
    /\ status = "running"
    /\ output = <<>>
    /\ nfiles = 0
    /\ last = NoLast

ApplyFormat ==
    /\ call.fn = "none"
    /\ call' = [NoCall EXCEPT !.fn = "format_multiline",
                              !.text = format_multiline(input)]
    /\ UNCHANGED <<pattern, status, output, nfiles, last, input>>

NextFmt == ApplyFormat

SpecFmt == InitFmt /\ [][NextFmt]_vars

-----------------------------------------------------------------------------
(* Trees of every shape up to a size *)

\* Most nodes a generated tree has.
MaxNodes == 5

\* The parent arrays of the trees on nodes 1..n rooted at node 1; a node's
\* children are ordered by index, which need not be the pre-order.
Shapes(n) == {p \in [1..n -> 0..(n - 1)] : p[1] = 0 /\ \A k \in 2..n : p[k] \in 1..(k - 1)}

AllShapes(max) == UNION {Shapes(n) : n \in 1..max}

ShapeLeaves(p) == {k \in DOMAIN p : \A c \in DOMAIN p : p[c] # k}

RECURSIVE AncestorsOrSelf(_, _)
AncestorsOrSelf(p, node) ==
    IF node = 0 THEN {} ELSE {node} \cup AncestorsOrSelf(p, p[node])

\* Source order of two leaves: b follows a when, below their lowest common
\* ancestor, the branch to a is an earlier child than the branch to b.
LeafBefore(p, a, b) ==
    \E x \in AncestorsOrSelf(p, a), y \in AncestorsOrSelf(p, b) :
        p[x] = p[y] /\ x < y

\* The leaves in S in source order.
RECURSIVE LeafOrder(_, _)
LeafOrder(p, S) ==
    IF S = {} THEN <<>>
    ELSE LET l == CHOOSE x \in S : \A m \in S : m = x \/ LeafBefore(p, x, m)
         IN  <<l>> \o LeafOrder(p, S \ {l})

\* The tokens of the leaves in `order` laid end to end, from the i-th on.
RECURSIVE ConcatTokens(_, _, _)
ConcatTokens(tok, order, i) ==
    IF i > Len(order) THEN <<>> ELSE tok[order[i]] \o ConcatTokens(tok, order, i + 1)

\* The tree whose source is its leaves' tokens laid end to end in source
\* order: a leaf spans its token, an inner node spans its leaves.
GenTree(p, kind, field, tok) ==
    LET n == Len(p)
        order == LeafOrder(p, ShapeLeaves(p))
        m == Len(order)
        anc == [i \in 1..m |-> AncestorsOrSelf(p, order[i])]
        \* ends[i]: the offset at which the i-th leaf ends
        ends == [i \in 1..m |-> Len(ConcatTokens(tok, SubSeq(order, 1, i), 1))]
        first(k) == CHOOSE i \in 1..m : k \in anc[i] /\ \A j \in 1..(i - 1) : k \notin anc[j]
        final(k) == CHOOSE i \in 1..m : k \in anc[i] /\ \A j \in (i + 1)..m : k \notin anc[j]
    IN  [n      |-> n,
         parent |-> p,
         kind   |-> kind,
         field  |-> field,
         start  |-> [k \in 1..n |-> ends[first(k)] - Len(tok[order[first(k)]])],
         end    |-> [k \in 1..n |-> ends[final(k)]],
         src    |-> ConcatTokens(tok, order, 1)]

Leaves(T) == ShapeLeaves(T.parent)

-----------------------------------------------------------------------------
(* find_leaf_nodes_with_text on its own *)

\* What a leaf can hold: text with the letters in either order, or one half
\* of the two-byte character.
LeafTokens == { <<"x", "y">>, <<"y", "x">>, <<LeadByte>>, <<ContByte>> }
FindPatterns == { <<"x", "y">>, <<"y">>, <<>> }

\* Trees over a buffer that is valid UTF-8 as a whole (a &str).
FindTrees(max) ==
    UNION { { GenTree(p,
                      [k \in DOMAIN p |-> IF k = Root THEN "module" ELSE "identifier"],
                      [k \in DOMAIN p |-> FALSE],
                      [k \in DOMAIN p |-> IF k \in ShapeLeaves(p) THEN tk[k] ELSE <<>>])
              : tk \in {f \in [ShapeLeaves(p) -> LeafTokens] :
                          ValidUtf8(ConcatTokens(f, LeafOrder(p, ShapeLeaves(p)), 1))} }
            : p \in AllShapes(max) }

InitFind ==
    /\ input \in FindTrees(MaxNodes)
    /\ pattern \in FindPatterns
    /\ call = NoCall
    /\ status = "running"
    /\ output = <<>>
    /\ nfiles = 0
    /\ last = NoLast

\* Line 47: the search from the root.
Search ==
    /\ call.fn = "none"
    /\ LET found == find_leaf_nodes_with_text(input, Root, pattern)
       IN  call' = [NoCall EXCEPT !.fn = "find_leaf_nodes_with_text",
                                  !.node = Root,
                                  !.ok = found.ok,
                                  !.nodes = found.matches]
    /\ UNCHANGED <<pattern, status, output, nfiles, last, input>>

NextFind == Search

SpecFind == InitFind /\ [][NextFind]_vars

-----------------------------------------------------------------------------
(* The scope chain and the block of a leaf, on their own *)

\* What a node other than the root can be: a function or a class, the
\* identifier in its parent's name field, or any other node.
NodeSorts == {"function_definition", "class_definition", "name", "identifier"}

\* Every leaf holds its own letter.
Letters == <<"a", "b", "c", "d", "e", "f", "g", "h">>

\* The shapes whose nodes are numbered in pre-order: a node's parent is the
\* node before it or one of that node's ancestors.
PreOrdered(p) == \A k \in 2..Len(p) : p[k] \in AncestorsOrSelf(p, k - 1)

ScopeTrees(max) ==
    UNION { { GenTree(p,
                      [k \in DOMAIN p |-> IF k = Root THEN "module"
                                          ELSE IF a[k] = "name" THEN "identifier"
                                          ELSE a[k]],
                      [k \in DOMAIN p |-> k # Root /\ a[k] = "name"],
                      [k \in DOMAIN p |-> IF k \in ShapeLeaves(p) THEN <<Letters[k]>> ELSE <<>>])
              : a \in [DOMAIN p \ {Root} -> NodeSorts] }
            : p \in {q \in AllShapes(max) : PreOrdered(q)} }

\* The query is empty, so every leaf is a matched leaf.
InitScope ==
    /\ input \in ScopeTrees(MaxNodes)
    /\ pattern = <<>>
    /\ call = NoCall
    /\ status = "running"
    /\ output = <<>>
    /\ nfiles = 0
    /\ last = NoLast

\* Lines 52-65 for one leaf: the hierarchy, the innermost named node (the
\* unwrap of line 59 panics when there is none) and the scope chain.
NameScopes ==
    \E node \in Leaves(input) :
        /\ call.fn = "none"
        /\ LET hierarchy == collect_parent_hierarchy(input, node)
               nn == nodes_with_names(input, hierarchy)
           IN  call' = [NoCall EXCEPT !.fn = "hierarchy_str",
                                      !.node = node,
                                      !.ok = (nn # <<>>),
                                      !.last_node = IF nn = <<>> THEN 0
                                                    ELSE nn[Len(nn)].node,
                                      !.nodes = hierarchy,
                                      !.text = IF nn = <<>> THEN <<>>
                                               ELSE hierarchy_str(input, hierarchy)]
        /\ UNCHANGED <<pattern, status, output, nfiles, last, input>>

\* Line 67 for one leaf and any anchor node.
SelectBlock ==
    \E node \in Leaves(input), last_node \in Nodes(input) :
        /\ call.fn = "none"
        /\ LET line == matched_block(input, node, last_node)
           IN  call' = [NoCall EXCEPT !.fn = "matched_block",
                                      !.node = node,
                                      !.last_node = last_node,
                                      !.ok = ~line.panic,
                                      !.nodes = <<relevant_node(input, node, last_node)>>,
                                      !.text = line.text]
        /\ UNCHANGED <<pattern, status, output, nfiles, last, input>>

NextScope == NameScopes \/ SelectBlock

SpecScope == InitScope /\ [][NextScope]_vars

-----------------------------------------------------------------------------
(* Properties *)

SpanText(T, node) == Slice(T.src, T.start[node], T.end[node])
Decodable(T, node) == ValidUtf8(SpanText(T, node))
AllLeavesDecodable(T) == \A l \in Leaves(T) : Decodable(T, l)
MatchingLeaves(T, q) == {l \in Leaves(T) : Decodable(T, l) /\ Contains(SpanText(T, l), q)}

\* The first child of a node that sits in its name field, or 0.
NameChild(T, node) ==
    IF \E c \in Nodes(T) : T.parent[c] = node /\ T.field[c]
    THEN CHOOSE c \in Nodes(T) :
             /\ T.parent[c] = node /\ T.field[c]
             /\ \A d \in Nodes(T) : (T.parent[d] = node /\ T.field[d]) => c <= d
    ELSE 0

\* A class or function node whose name resolves.
NamedScope(T, node) ==
    /\ T.kind[node] \in {"class_definition", "function_definition"}
    /\ NameChild(T, node) # 0
    /\ Decodable(T, NameChild(T, node))

NamedAncestors(T, node) ==
    {a \in AncestorsOrSelf(T.parent, node) : NamedScope(T, a)}

\* The innermost named scope around a node, or 0: the named ancestor that
\* has every other named ancestor above it.
InnermostNamed(T, node) ==
    IF NamedAncestors(T, node) = {} THEN 0
    ELSE CHOOSE a \in NamedAncestors(T, node) :
             \A b \in NamedAncestors(T, node) : b \in AncestorsOrSelf(T.parent, a)

Depth(T, node) == Cardinality(AncestorsOrSelf(T.parent, node)) - 1

\* The names of the named scopes around a node, outermost first.
RECURSIVE NamesByDepth(_, _)
NamesByDepth(T, S) ==
    IF S = {} THEN <<>>
    ELSE LET a == CHOOSE x \in S : \A y \in S : Depth(T, x) <= Depth(T, y)
         IN  <<SpanText(T, NameChild(T, a))>> \o NamesByDepth(T, S \ {a})

Count(s, c) == Cardinality({k \in DOMAIN s : s[k] = c})

IsPrefix(s, t) == Len(s) <= Len(t) /\ SubSeq(t, 1, Len(s)) = s

\* The block selector was applied to a leaf and the innermost named scope
\* around it.
BlockOfScopedLeaf ==
    /\ call.fn = "matched_block"
    /\ call.last_node # 0
    /\ call.last_node = InnermostNamed(input, call.node)
    /\ call.last_node # call.node

Selected == call.nodes[1]

\* C1 as stated: the node selected for a matched leaf M with innermost named
\* scope N (a proper ancestor of M) is the ancestor-or-self of M whose parent
\* is N.
C1_SelectedIsDirectChild ==
    BlockOfScopedLeaf =>
        /\ Selected \in AncestorsOrSelf(input.parent, call.node)
        /\ Parent(input, Selected) = call.last_node

\* C1 as amended: when M lies at least two levels below N, the node selected
\* is the ancestor-or-self of M whose grandparent is N.
C1_SelectedIsGrandchild ==
    (BlockOfScopedLeaf /\ Parent(input, call.node) # call.last_node) =>
        /\ Selected \in AncestorsOrSelf(input.parent, call.node)
        /\ Parent(input, Selected) # 0
        /\ Parent(input, Parent(input, Selected)) = call.last_node

\* A leaf three or more levels below its innermost named scope: the climb
\* moved up and stopped at the scope's grandchild.
C1_Witness ==
    /\ BlockOfScopedLeaf
    /\ Parent(input, call.node) # call.last_node
    /\ Selected # call.node
    /\ Depth(input, call.last_node) >= 1

\* C2: a matched leaf with no named class or function around it is still
\* reported, on a line with an empty scope chain, and the file's processing
\* ends normally.
C2_TopLevelMatchReported ==
    (/\ last.entry.what = "py"
     /\ AllLeavesDecodable(last.entry.tree)
     /\ \E l \in MatchingLeaves(last.entry.tree, pattern) :
            NamedAncestors(last.entry.tree, l) = {})
    => /\ last.outcome = "ok"
       /\ \E i \in DOMAIN last.lines :
              IsPrefix(last.entry.path \o <<" ", ":", " ">>, last.lines[i])

\* The entry the last iteration handled failed to be read, parsed or decoded.
FileFailed ==
    \/ last.entry.what \in {"unreadable", "unparsed"}
    \/ last.entry.what = "py" /\ ~AllLeavesDecodable(last.entry.tree)

\* C3: a read, parse or decode failure on one file does not stop the run: the
\* walk goes on to the next entry.
C3_ErrorIsolation == FileFailed => status = "running"

\* C4: with every leaf decodable, the search returns the leaves whose text
\* contains the query, each once, no other node, in source order.
C4_FindLeafMatches ==
    (call.fn = "find_leaf_nodes_with_text" /\ AllLeavesDecodable(input)) =>
        /\ call.ok
        /\ Range(call.nodes) = MatchingLeaves(input, pattern)
        /\ Len(call.nodes) = Cardinality(MatchingLeaves(input, pattern))
        /\ \A i, j \in DOMAIN call.nodes :
               i < j => LeafBefore(input.parent, call.nodes[i], call.nodes[j])

\* Two matches whose source order is not their index order, next to a leaf
\* that does not match.
C4_Witness ==
    /\ call.fn = "find_leaf_nodes_with_text"
    /\ AllLeavesDecodable(input)
    /\ \E i, j \in DOMAIN call.nodes : i < j /\ call.nodes[i] > call.nodes[j]
    /\ Leaves(input) \ MatchingLeaves(input, pattern) # {}

Scenario1Entry == Entry("py", <<"./s1.py">>, Scenario1)
Scenario1Run == last.entry = Scenario1Entry /\ pattern = <<"x">>
Scenario1Line1 == <<"./s1.py", " ", "f", ":", " ", "x", " ", "=", " ", "1">>
Scenario1Line2 == <<"./s1.py", " ", "f", ":", " ", "r", "e", "t", "u", "r", "n", " ", "x">>

\* C5 as stated: Scenario 1 with the query x prints exactly one line, with
\* the scope chain f and the block x = 1.
C5_Scenario1OneLine == Scenario1Run => last.lines = <<Scenario1Line1>>

\* C5 as amended: Scenario 1 with the query x prints exactly two lines, one
\* per leaf x, both with the scope chain f: the block x = 1, then the block
\* return x.
C5_Scenario1TwoLines ==
    Scenario1Run =>
        /\ last.outcome = "ok"
        /\ last.lines = <<Scenario1Line1, Scenario1Line2>>

C5_Witness == Scenario1Run /\ output # <<>>

\* C6: the scope chain reported for a leaf is the names of the class and
\* function nodes on its parent chain that have a resolvable name, outermost
\* first, joined by ->; a class or function node without one adds nothing.
C6_ScopeChain ==
    (call.fn = "hierarchy_str" /\ call.ok) =>
        call.text = Join(NamesByDepth(input, NamedAncestors(input, call.node)))

\* A function inside a class (or the reverse), both named.
C6_Witness ==
    /\ call.fn = "hierarchy_str"
    /\ call.ok
    /\ \E a, b \in NamedAncestors(input, call.node) :
           /\ a # b
           /\ input.kind[a] # input.kind[b]
    /\ Count(call.text, ">") = 1

\* C7: the output of format_multiline holds no newline.
C7_SingleLine ==
    call.fn = "format_multiline" => NL \notin Range(call.text)

\* C8: for a block without the join marker, the flattened text splits on the
\* marker into as many pieces as the block has lines.
C8_LineCountKept ==
    (call.fn = "format_multiline" /\ JoinMarker \notin Range(input)) =>
        Count(call.text, JoinMarker) + 1 = Count(input, NL) + 1

\* C9: a file with a leaf whose span does not decode prints no line at all.
C9_NoPartialOutput ==
    (last.entry.what = "py" /\ ~AllLeavesDecodable(last.entry.tree)) =>
        /\ last.lines = <<>>
        /\ last.outcome = "err"

\* A leaf that matches comes before the leaf that does not decode.
C9_Witness ==
    /\ last.entry.what = "py"
    /\ \E m \in MatchingLeaves(last.entry.tree, pattern), l \in Leaves(last.entry.tree) :
           /\ ~Decodable(last.entry.tree, l)
           /\ last.entry.tree.end[m] <= last.entry.tree.start[l]
    /\ last.outcome = "err"

\* The anchor is an ancestor of the leaf two or more levels up.
AnchorAbove ==
    call.last_node \in
        AncestorsOrSelf(input.parent, call.node) \ {call.node, Parent(input, call.node)}

\* C10: the climb ends at an ancestor-or-self of the leaf, and when no
\* ancestor two or more levels up is the anchor it ends at the child of the
\* root above the leaf (at the root when the leaf is the root).
C10_ClimbPastScope ==
    call.fn = "matched_block" =>
        /\ Selected \in AncestorsOrSelf(input.parent, call.node)
        /\ ~AnchorAbove =>
               IF call.node = Root THEN Selected = Root
               ELSE Parent(input, Selected) = Root

\* The leaf is a direct child of its innermost named scope, which lies two
\* or more levels below the root: the climb passed the scope.
C10_Witness ==
    /\ BlockOfScopedLeaf
    /\ Parent(input, call.node) = call.last_node
    /\ Depth(input, call.last_node) >= 2
    /\ Selected \in AncestorsOrSelf(input.parent, call.last_node) \ {call.last_node}

====
